---- MODULE Spec2Model ----
(***************************************************************************)
(* Pro Liquidity Matrix Bot (src/bot.py): the sweep detector, the retail   *)
(* stop-cluster detector, the trade plan builder, and the two scheduled    *)
(* jobs with the daily alert counter.                                      *)
(*                                                                         *)
(* Prices are Python floats in the source.  Here a price is an integer     *)
(* number of 1/Scale price units (fixed point, four decimals).  A float    *)
(* comparison or rounding of the source gives the answer of exact          *)
(* arithmetic whenever the exact values are off the boundary: the float    *)
(* error (some 1e-13 at these prices) is far below one unit.  On the       *)
(* boundary itself (a wick ratio of exactly 0.35, a value exactly half a   *)
(* band from a centre, a candidate exactly one band from a cluster, a      *)
(* rounding tie) the answer of the source depends on the float error of    *)
(* the operands; the model leaves it open, as an input of the call         *)
(* (tie_wick, tie_band, tie_near, tie_round).                              *)
(***************************************************************************)
EXTENDS Integers, Sequences, FiniteSets, TLC

VARIABLES
    \* the clock and the module-level alerts_today
    today, alerts_today,
    \* a run of job_post_open: where it is, and what it began with and did
    post_pc, post_raw15, started, run_date, feeds, results, fetched, sent, outcome,
    \* a run of job_pre_alert
    pre_pc, pre_raw15, pre_results, pre_sent,
    \* detect_sweep_and_green
    candles_15m, lookback, tie_wick, detection,
    \* detect_retail_stop_cluster
    candles_5m, lookback_minutes, tie_band, retail_cluster,
    \* build_trade_plan
    symbol, sweep, confirm, cluster_in, footprint, tie_near, tie_round, plan

postVars    == <<post_pc, post_raw15, started, run_date, feeds, results, fetched, sent, outcome>>
preVars     == <<pre_pc, pre_raw15, pre_results, pre_sent>>
jobVars     == <<today, alerts_today, postVars, preVars>>
sweepVars   == <<candles_15m, lookback, tie_wick, detection>>
clusterVars == <<candles_5m, lookback_minutes, tie_band, retail_cluster>>
planVars    == <<symbol, sweep, confirm, cluster_in, footprint, tie_near, tie_round, plan>>
vars        == <<jobVars, sweepVars, clusterVars, planVars>>

(***************************************************************************)
(* Fixed point and small helpers                                           *)
(***************************************************************************)
Scale == 10000

Price(units, frac) == units * Scale + frac

Max(a, b) == IF a >= b THEN a ELSE b
Min(a, b) == IF a <= b THEN a ELSE b
Abs(a)    == IF a >= 0 THEN a ELSE -a

Candle(o, h, l, c) == [open |-> o, high |-> h, low |-> l, close |-> c]

\* Python's s[-k:] : the last k elements, the whole list when k >= len(s),
\* and (since -0 == 0) the whole list when k = 0.
PySuffix(s, k) ==
    IF k = 0 \/ k >= Len(s) THEN s ELSE SubSeq(s, Len(s) - k + 1, Len(s))

\* a price that is a whole number of sixteenths is a float without error
ExactPrice(x) == x % (Scale \div 16) = 0

Range(s) == {s[i] : i \in 1..Len(s)}

Pending == [status |-> "pending"]

(***************************************************************************)
(* detect_sweep_and_green                                                  *)
(***************************************************************************)
\* line 111: too few candles for the lookback
NotEnoughDataWeak(candles, lb) == Len(candles) < lb + 1
NotEnoughData(candles, lb) == Len(candles) < lb + 2

\* line 113: window = candles_15m[-(lookback+1):]
SweepWindow(candles, lb) == PySuffix(candles, lb + 1)

\* line 120: named lower_wick, computed from the upper edge of the body
LowerWick(c) == IF c.open > c.close THEN c.open - c.low ELSE c.close - c.low

\* lines 120-122 at a ratio of exactly 0.35: with float prices that carry no
\* error both differences and the quotient are exact and 0.35 > 0.35 fails;
\* otherwise the quotient lands above 0.35 or not as the errors fall
WickTie(c) ==
    /\ c.high - c.low > 0
    /\ 20 * LowerWick(c) = 7 * (c.high - c.low)
    /\ ~(ExactPrice(c.low + LowerWick(c)) /\ ExactPrice(c.high) /\ ExactPrice(c.low))

\* lines 121-122: lower_wick / max(high - low, 1e-6) > 0.35.  One price unit
\* is 1e-4, so a positive range is never below 1e-6; with a range that is not
\* positive the divisor is 1e-6 and any positive wick passes.  tw is the set
\* of candles at a tie whose float quotient is above 0.35.
WickTest(c, tw) ==
    LET rng == c.high - c.low
    IN  IF rng > 0
        THEN IF WickTie(c) THEN c \in tw ELSE 20 * LowerWick(c) > 7 * rng
        ELSE LowerWick(c) > 0

\* lines 118, 122, 124 for window position i (1-based, interior)
IsSweepAt(w, i, tw) ==
    /\ w[i].low < w[i - 1].low
    /\ w[i].low < w[i + 1].low
    /\ WickTest(w[i], tw)
    /\ w[i + 1].close > w[i + 1].open

\* lines 114-131: for i in range(1, len(window)-1), first match returns.
\* off is the position of the window in the list; reads collects the list
\* indices (1-based) the loop has read.
RECURSIVE ScanFrom(_, _, _, _, _)
ScanFrom(w, i, off, reads, tw) ==
    IF i > Len(w) - 1
    THEN [signal |-> FALSE, reason |-> "no_sweep_found", reads |-> reads]
    ELSE LET rd == reads \cup {off + i - 1, off + i, off + i + 1}
         IN  IF IsSweepAt(w, i, tw)
             THEN [signal |-> TRUE,
                   sweep_candle |-> w[i],
                   confirm_candle |-> w[i + 1],
                   sweep_index_from_end |-> Len(w) - i,
                   reads |-> rd]
             ELSE ScanFrom(w, i + 1, off, rd, tw)

\* the same loop run from the newest interior candle down to the oldest
RECURSIVE ScanFromNewest(_, _, _, _, _)
ScanFromNewest(w, i, off, reads, tw) ==
    IF i < 2
    THEN [signal |-> FALSE, reason |-> "no_sweep_found", reads |-> reads]
    ELSE LET rd == reads \cup {off + i - 1, off + i, off + i + 1}
         IN  IF IsSweepAt(w, i, tw)
             THEN [signal |-> TRUE,
                   sweep_candle |-> w[i],
                   confirm_candle |-> w[i + 1],
                   sweep_index_from_end |-> Len(w) - i,
                   reads |-> rd]
             ELSE ScanFromNewest(w, i - 1, off, rd, tw)

ScanNewestFirst(w, off, tw) == ScanFromNewest(w, Len(w) - 1, off, {}, tw)
ScanWindow(w, off, tw) == ScanFrom(w, 2, off, {}, tw)

\* lines 105-131
detect_sweep_and_green(candles, lb, tw) ==
    IF NotEnoughData(candles, lb)
    THEN [signal |-> FALSE, reason |-> "not_enough_data", reads |-> {}]
    ELSE LET w == SweepWindow(candles, lb)
         IN  ScanWindow(w, Len(candles) - Len(w), tw)

(***************************************************************************)
(* Inputs of the sweep detector: 15-minute candles, all but one at whole   *)
(* prices.                                                                 *)
(***************************************************************************)
MaxLookback == 4

P(k) == Price(1900 + k, 0)

\* green, low 3: a neighbour, and a confirming candle
CandleA  == Candle(P(4), P(6), P(3), P(6))
\* red, low 3: a neighbour that does not confirm
CandleB  == Candle(P(6), P(6), P(3), P(4))
\* low 1, wick below the body 2 of range 3
CandleS1 == Candle(P(3), P(4), P(1), P(3))
\* low 1, red, wick below the body 1 of range 3, upper body edge 3 of 3
CandleS2 == Candle(P(4), P(4), P(1), P(2))
\* low 1, upper body edge 7 of range 20 at whole prices: exactly 0.35, not above
CandleS4 == Candle(P(8), P(21), P(1), P(2))
\* low 1, upper body edge 0.7 of range 2.0 from 1901.7: 0.35 up to float error
CandleS5 == Candle(Price(1901, 7000), P(3), P(1), Price(1901, 2000))
\* flat candle at the lowest price: range 0
CandleF  == Candle(P(0), P(0), P(0), P(0))

SweepCandles == {CandleA, CandleB, CandleS1, CandleS2, CandleS4, CandleS5, CandleF}

SeqsUpTo(S, n) == UNION {[1..k -> S] : k \in 0..n}

SweepInit ==
    /\ lookback \in 1..MaxLookback
    /\ candles_15m \in SeqsUpTo(SweepCandles, Min(lookback + 3, MaxLookback + 2))
    /\ tie_wick \in SUBSET {c \in Range(candles_15m) : WickTie(c)}
    /\ detection = Pending

\* one call of detect_sweep_and_green(candles_15m, lookback)
DetectSweep ==
    /\ detection = Pending
    /\ detection' = detect_sweep_and_green(candles_15m, lookback, tie_wick)
    /\ UNCHANGED <<candles_15m, lookback, tie_wick>>
    /\ UNCHANGED <<jobVars, clusterVars, planVars>>

(***************************************************************************)
(* detect_retail_stop_cluster                                              *)
(***************************************************************************)
\* line 45: RETAIL_CLUSTER_BAND = 0.15
RETAIL_CLUSTER_BAND == 1500

\* line 156: best_center = None (prices are positive)
NoCenter == 0

\* line 154: sorted(values), ascending
RECURSIVE Insert(_, _)
Insert(s, v) ==
    IF s = <<>> THEN <<v>>
    ELSE IF v <= Head(s) THEN <<v>> \o s
    ELSE <<Head(s)>> \o Insert(Tail(s), v)

RECURSIVE Sorted(_)
Sorted(s) == IF s = <<>> THEN <<>> ELSE Insert(Sorted(Tail(s)), Head(s))

\* lines 158-160 for a value x exactly band/2 from the centre v: the bounds
\* v - band/2 and v + band/2 are rounded floats, and x falls inside or not
BandTie(v, x, bnd) == 2 * Abs(x - v) = bnd

\* lines 158-160: low_bound <= x <= high_bound.  tb is the set of pairs
\* <<v, x>> at a tie for which the float comparison holds.
InBand(v, x, bnd, tb) ==
    IF BandTie(v, x, bnd) THEN <<v, x>> \in tb ELSE 2 * Abs(x - v) < bnd

\* line 160: how many values lie in [v - band/2, v + band/2]
BandCount(vs, v, bnd, tb) ==
    Cardinality({j \in 1..Len(vs) : InBand(v, vs[j], bnd, tb)})

\* lines 155-164: the loop over the sorted values; a later value replaces the
\* best one only with a strictly larger count
RECURSIVE MetricFrom(_, _, _, _, _, _)
MetricFrom(vs, i, bnd, max_count, best_center, tb) ==
    IF i > Len(vs)
    THEN [count |-> max_count, center |-> best_center]
    ELSE LET cnt == BandCount(vs, vs[i], bnd, tb)
         IN  IF cnt > max_count
             THEN MetricFrom(vs, i + 1, bnd, cnt, vs[i], tb)
             ELSE MetricFrom(vs, i + 1, bnd, max_count, best_center, tb)

cluster_metric(values, bnd, tb) == MetricFrom(Sorted(values), 1, bnd, 0, NoCenter, tb)

\* line 149: n = min(len(candles_5m), int(lookback_minutes/5))
WindowSize(candles, lbm) == Min(Len(candles), lbm \div 5)

\* line 167: threshold = max(3, int(n * 0.08)); the mutant rounds 8% of n up
ThresholdRoundedUp(n) == Max(3, (n * 8 + 99) \div 100)
Threshold(n) == Max(3, (n * 8) \div 100)

\* lines 168-172: the highs are asked first
PickSide(hm, lm, thr, bnd) ==
    IF hm.count >= thr
    THEN [side |-> "SELL", cluster_price |-> hm.center, count |-> hm.count, band |-> bnd]
    ELSE IF lm.count >= thr
    THEN [side |-> "BUY", cluster_price |-> lm.center, count |-> lm.count, band |-> bnd]
    ELSE [side |-> "none"]

\* lines 141-172
detect_retail_stop_cluster(candles, bnd, lbm, tb) ==
    IF candles = <<>>
    THEN [side |-> "none"]
    ELSE LET n      == WindowSize(candles, lbm)
             window == PySuffix(candles, n)
             highs  == [i \in 1..Len(window) |-> window[i].high]
             lows   == [i \in 1..Len(window) |-> window[i].low]
         IN  PickSide(cluster_metric(highs, bnd, tb), cluster_metric(lows, bnd, tb),
                      Threshold(n), bnd)

(***************************************************************************)
(* Inputs of the cluster detector.  Short lists are drawn exhaustively     *)
(* from five 5-minute candles: four on a 0.05 price grid and one whose     *)
(* high is exactly half a band above the high of the first.  Long lists,   *)
(* where 8% of the window passes 3, have their last kh highs at one price  *)
(* and their last kl lows at one price, and every other high and low a     *)
(* whole price unit from all others.                                       *)
(***************************************************************************)
MaxShortLen == 4
MaxHits == 4

Q(k, frac) == Price(1950 + k, frac)

ClusterCandles ==
    { Candle(Q(-1, 5000), Q(0, 0),   Q(-2, 0),   Q(-1, 5000)),
      Candle(Q(-1, 5000), Q(0, 500), Q(-4, 0),   Q(-1, 5000)),
      Candle(Q(-1, 5000), Q(2, 0),   Q(-2, 500), Q(-1, 5000)),
      Candle(Q(-1, 5000), Q(4, 0),   Q(-6, 0),   Q(-1, 5000)),
      Candle(Q(-1, 5000), Q(0, 750), Q(-8, 0),   Q(-1, 5000)) }

LongLens == {36, 40, 50, 52}

LongCandles(len, kh, kl) ==
    [i \in 1..len |->
        Candle(Q(-5, 0),
               IF i > len - kh THEN Q(0, 0) ELSE Q(i, 0),
               IF i > len - kl THEN Q(-10, 0) ELSE Q(-10 - i, 0),
               Q(-5, 0))]

LookbackMinutes == {3, 5, 12, 15, 20, 180, 200, 250}

\* the pairs of highs, and of lows, of a list that are exactly band/2 apart
BandTies(candles, bnd) ==
    LET highs == {c.high : c \in Range(candles)}
        lows  == {c.low : c \in Range(candles)}
    IN  {p \in (highs \X highs) \cup (lows \X lows) : BandTie(p[1], p[2], bnd)}

ClusterInit ==
    /\ lookback_minutes \in LookbackMinutes
    /\ candles_5m \in SeqsUpTo(ClusterCandles, MaxShortLen)
                      \cup {LongCandles(len, kh, kl) :
                              len \in LongLens, kh \in 0..MaxHits, kl \in 0..MaxHits}
    /\ tie_band \in SUBSET BandTies(candles_5m, RETAIL_CLUSTER_BAND)
    /\ retail_cluster = Pending

\* one call of detect_retail_stop_cluster(candles_5m, RETAIL_CLUSTER_BAND, lookback_minutes)
DetectCluster ==
    /\ retail_cluster = Pending
    /\ retail_cluster' =
          detect_retail_stop_cluster(candles_5m, RETAIL_CLUSTER_BAND,
                                     lookback_minutes, tie_band)
    /\ UNCHANGED <<candles_5m, lookback_minutes, tie_band>>
    /\ UNCHANGED <<jobVars, sweepVars, planVars>>

(***************************************************************************)
(* build_trade_plan.  The unrounded entry candidate, stop and target are   *)
(* carried in half units (twice the price in units), so that the midpoint  *)
(* (confirm close + sweep extreme) / 2 and the half-way target are exact.  *)
(***************************************************************************)
SYMBOL_XAU == "XAU/USD"
SYMBOL_BTC == "BTC/USD"

XAU_SL_PIPS == 20
BTC_SL_USD == 350
RR == 4

\* line 209: is_xau = "XAU" in symbol.upper()
IsXau(sym) == sym = SYMBOL_XAU

\* line 210: pip_val = 0.01 if is_xau else 1.0
PipVal(sym) == IF IsXau(sym) THEN Scale \div 100 ELSE Scale

\* line 211: sl_distance = XAU_SL_PIPS * pip_val if is_xau else BTC_SL_USD
SlDistance(sym) == IF IsXau(sym) THEN XAU_SL_PIPS * PipVal(sym) ELSE BTC_SL_USD * Scale

\* line 204
Side(cf) == IF cf.close > cf.open THEN "LONG" ELSE "SHORT"

\* lines 214 and 223: the entry candidate before the cluster is looked at,
\* in half units
EntryCandidate(sym, sw, cf) ==
    IF Side(cf) = "LONG"
    THEN Max(2 * (cf.open + PipVal(sym) * 2), cf.close + sw.low)
    ELSE Min(2 * (cf.open - PipVal(sym) * 2), cf.close + sw.high)

\* lines 217 and 226 for a candidate (half units) exactly one band from the
\* cluster price: abs(entry_candidate - cluster) is a rounded float and is
\* at most the float 0.15 or not
NearTie(cand, rc) == Abs(cand - 2 * rc.cluster_price) = 2 * rc.band

\* lines 215-217 and 224-226: a cluster on the plan's side, within one band.
\* tn is the answer of the float comparison at a tie.
NearCluster(side, cand, rc, tn) ==
    /\ rc.side = (IF side = "LONG" THEN "BUY" ELSE "SELL")
    /\ IF NearTie(cand, rc) THEN tn
       ELSE Abs(cand - 2 * rc.cluster_price) < 2 * rc.band

\* lines 218 and 227, in half units; the mutant moves the entry one pip past
\* the cluster price and leaves the band out
NudgedNoBand(sym, side, cand, rc, tn) ==
    IF NearCluster(side, cand, rc, tn)
    THEN IF side = "LONG"
         THEN 2 * (rc.cluster_price + PipVal(sym) * 1)
         ELSE 2 * (rc.cluster_price - PipVal(sym) * 1)
    ELSE cand
Nudged(sym, side, cand, rc, tn) ==
    IF NearCluster(side, cand, rc, tn)
    THEN IF side = "LONG"
         THEN 2 * (rc.cluster_price + rc.band + PipVal(sym) * 1)
         ELSE 2 * (rc.cluster_price - rc.band - PipVal(sym) * 1)
    ELSE cand

\* lines 219 and 228, in half units; the mutant puts the stop on the entry
\* side of the sweep
StopLossInside(sym, side, sw) ==
    IF side = "LONG" THEN 2 * (sw.low + SlDistance(sym))
                     ELSE 2 * (sw.high - SlDistance(sym))
StopLoss(sym, side, sw) ==
    IF side = "LONG" THEN 2 * (sw.low - SlDistance(sym))
                     ELSE 2 * (sw.high + SlDistance(sym))

\* lines 220-221 and 229-230, in half units
TakeProfit(side, entry_candidate, sl) ==
    IF side = "LONG"
    THEN entry_candidate + (entry_candidate - sl) * RR
    ELSE entry_candidate - (sl - entry_candidate) * RR

\* lines 232-238, in hundredths; the mutant gives the 0.1 whenever the cluster
\* is not on the plan's side
ConfidenceBySide(side, fp, rc) ==
    Min(95, 50 + 20 + (IF fp.footprint THEN 15 ELSE 0)
                    + (IF rc.side # (IF side = "LONG" THEN "BUY" ELSE "SELL")
                       THEN 10 ELSE 0))
Confidence(side, fp, rc) ==
    Min(95, 50 + 20 + (IF fp.footprint THEN 15 ELSE 0)
                    + (IF rc.side = "none" THEN 10 ELSE 0))

\* round(x, digits) of a value x2 in half units to a multiple of q units: the
\* nearer multiple, and at a decimal tie the upper one (up) or the lower one,
\* as the float that stands for x lies above or below the tie
RoundTie(x2, q) == x2 % (2 * q) = q

RoundTo(x2, q, up) ==
    LET r  == x2 % (2 * q)
        lo == (x2 - r) \div 2
    IN  IF r < q THEN lo
        ELSE IF r > q THEN lo + q
        ELSE IF up THEN lo + q ELSE lo

\* lines 240-243: 3 decimals for XAU, 2 otherwise
Quantum(sym) == IF IsXau(sym) THEN Scale \div 1000 ELSE Scale \div 100

Round(sym, x2, up) == RoundTo(x2, Quantum(sym), up)

\* line 243: entry + (tp - entry) * 0.5 of the rounded entry and tp, in half
\* units, then rounded
HalfWay(side, entry, tp) ==
    IF side = "LONG" THEN 2 * entry + (tp - entry) ELSE 2 * entry - (entry - tp)

TakeProfit1(sym, side, entry, tp, up) == Round(sym, HalfWay(side, entry, tp), up)

\* the four values line 240-243 round
RoundedFields == {"entry", "sl", "tp", "tp1"}

\* lines 196-255.  tn answers the comparison with the cluster at a tie, tr is
\* the set of fields whose rounding goes up at a tie.
build_trade_plan(sym, sw, cf, rc, fp, tn, tr) ==
    LET side  == Side(cf)
        cand  == Nudged(sym, side, EntryCandidate(sym, sw, cf), rc, tn)
        sl    == StopLoss(sym, side, sw)
        tp    == TakeProfit(side, cand, sl)
        entry == Round(sym, cand, "entry" \in tr)
    IN  [symbol     |-> sym,
         side       |-> side,
         entry      |-> entry,
         sl         |-> Round(sym, sl, "sl" \in tr),
         tp         |-> Round(sym, tp, "tp" \in tr),
         tp1        |-> TakeProfit1(sym, side, entry, Round(sym, tp, "tp" \in tr),
                                    "tp1" \in tr),
         confidence |-> Confidence(side, fp, rc)]

(***************************************************************************)
(* Inputs of the plan builder: any candle of PlanCandles as the sweep and  *)
(* any as the confirmation, so pairs the sweep detector can report (the    *)
(* confirmation's low above the sweep's low) and pairs it cannot.  The     *)
(* last candle closes on an odd unit (a midpoint on a half unit); the      *)
(* cluster prices include one exactly a band from a candidate and one that *)
(* puts the moved entry on a rounding tie.                                 *)
(***************************************************************************)
R(k, frac) == Price(1900 + k, frac)

PlanCandles ==
    { Candle(R(0, 5000),  R(0, 8000),  R(0, 0),     R(0, 4000)),
      Candle(R(0, 3000),  R(0, 9000),  R(0, 2000),  R(0, 8000)),
      Candle(R(0, 6000),  R(0, 7600),  R(0, 1000),  R(0, 7000)),
      Candle(R(0, 7000),  R(0, 7500),  R(0, 2500),  R(0, 3000)),
      Candle(R(-1, 0),    R(-1, 3000), R(-2, 9000), R(-1, 2000)),
      Candle(R(2, 0),     R(2, 1000),  R(1, 5000),  R(1, 6000)),
      Candle(R(0, 1000),  R(0, 5000),  R(0, 500),   R(0, 4011)) }

PlanClusterPrices ==
    {R(0, 3000), R(0, 5004), R(2, 4002), R(-2, 6006), R(0, 4700), R(0, 3005)}

PlanClusters ==
    {[side |-> "none"]}
    \cup {[side |-> sd, cluster_price |-> cp, count |-> 3, band |-> RETAIL_CLUSTER_BAND] :
            sd \in {"BUY", "SELL"}, cp \in PlanClusterPrices}

\* the fields of the plan whose unrounded value is on a rounding tie
TiedFields(sym, sw, cf, rc, tn, tr) ==
    LET side == Side(cf)
        cand == Nudged(sym, side, EntryCandidate(sym, sw, cf), rc, tn)
        sl   == StopLoss(sym, side, sw)
        tp   == TakeProfit(side, cand, sl)
        half == HalfWay(side, Round(sym, cand, "entry" \in tr),
                        Round(sym, tp, "tp" \in tr))
    IN  {f \in RoundedFields :
            RoundTie(CASE f = "entry" -> cand [] f = "sl" -> sl
                       [] f = "tp" -> tp [] f = "tp1" -> half, Quantum(sym))}

PlanInit ==
    /\ symbol \in {SYMBOL_XAU, SYMBOL_BTC}
    /\ sweep \in PlanCandles
    /\ confirm \in PlanCandles
    /\ cluster_in \in PlanClusters
    /\ footprint \in {[footprint |-> FALSE],
                      [footprint |-> TRUE, vol |-> 30, mean |-> 10, dir_same |-> TRUE]}
    /\ tie_near \in IF /\ cluster_in.side # "none"
                       /\ NearTie(EntryCandidate(symbol, sweep, confirm), cluster_in)
                    THEN BOOLEAN ELSE {FALSE}
    /\ tie_round \in {tr \in SUBSET RoundedFields :
                        tr \subseteq TiedFields(symbol, sweep, confirm, cluster_in,
                                                tie_near, tr)}
    /\ plan = Pending

\* one call of build_trade_plan(symbol, sweep, confirm, ..., cluster_in, footprint)
BuildPlan ==
    /\ plan = Pending
    /\ plan' = build_trade_plan(symbol, sweep, confirm, cluster_in, footprint,
                                tie_near, tie_round)
    /\ UNCHANGED <<symbol, sweep, confirm, cluster_in, footprint, tie_near, tie_round>>
    /\ UNCHANGED <<jobVars, sweepVars, clusterVars>>

(***************************************************************************)
(* Idle values of the variables a specification does not use               *)
(***************************************************************************)
SweepIdle ==
    /\ candles_15m = <<>>
    /\ lookback = 0
    /\ tie_wick = {}
    /\ detection = Pending

ClusterIdle ==
    /\ candles_5m = <<>>
    /\ lookback_minutes = 0
    /\ tie_band = {}
    /\ retail_cluster = Pending

PlanIdle ==
    /\ symbol = SYMBOL_XAU
    /\ sweep = Pending
    /\ confirm = Pending
    /\ cluster_in = Pending
    /\ footprint = Pending
    /\ tie_near = FALSE
    /\ tie_round = {}
    /\ plan = Pending

(***************************************************************************)
(* get_and_analyze, job_pre_alert, job_post_open and alerts_today.  The    *)
(* scheduler (lines 346-361) runs each job on its own pool thread, one     *)
(* instance of a job at a time, so a run of one job can fall between the   *)
(* steps of a run of the other.  A run is a sequence of steps, one for     *)
(* each wait on the network (a Telegram post; in get_and_analyze the       *)
(* request of the 15min series and the request of the 5min series) and one *)
(* for the increment of the counter.                                       *)
(***************************************************************************)
MAX_ALERTS_PER_DAY == 2

\* line 309: alerts_today = {"count": 0, "date": None}; dates are day numbers
\* from 1, and 0 stands for None
DateNone == 0

\* The failures of one request of twelvedata_get_series: requests.get raising
\* on a transport error or a timeout (lines 82-83), a response without
\* "values" (lines 85-86).
FeedErrors == {"transport_error", "timeout", "missing_values"}

\* A response that has "values" which lines 288-292 cannot use: an empty list
\* (c15[-1] or c5[-1] raises, lines 290-291) or an entry parse_candles cannot
\* convert (lines 93-100 raise, from line 288 or 289).  twelvedata_get_series
\* returns it; the exception comes after both requests.
UnusableValues == "unusable_values"

\* everything that makes get_and_analyze leave its try block by an exception
ErrorKinds == FeedErrors \cup {UnusableValues}

\* What the request of the 15min series (line 286) gives: a failure, values
\* that cannot be used, or candles on which the sweep detector reports a
\* sweep or none.
Series15Outcomes ==
    {[kind |-> e] : e \in ErrorKinds}
    \cup {[kind |-> "candles", signal |-> b] : b \in BOOLEAN}

\* What the request of the 5min series (line 287) gives: a failure, values
\* that cannot be used, or candles with a retail cluster side and a footprint.
Series5Outcomes ==
    {[kind |-> e] : e \in ErrorKinds}
    \cup {[kind |-> "candles", rc |-> [side |-> sd], fp |-> [footprint |-> b]] :
            sd \in {"none", "BUY", "SELL"}, b \in BOOLEAN}

\* What the feed has done for one instrument when both requests are answered
\* (lines 286-291): the failure of the second request; else, both series
\* being parsed and their last candles read before the sweep detector runs,
\* unusable values of either series; else the candles of both.  The retail
\* cluster and the footprint of the 5min candles are computed only after a
\* sweep (line 295).
FeedOf(raw15, raw5) ==
    IF raw5.kind \in FeedErrors THEN [kind |-> raw5.kind]
    ELSE IF raw15.kind = UnusableValues \/ raw5.kind = UnusableValues
    THEN [kind |-> UnusableValues]
    ELSE IF ~raw15.signal THEN [kind |-> "candles", signal |-> FALSE]
    ELSE [kind |-> "candles", signal |-> TRUE, rc |-> raw5.rc, fp |-> raw5.fp]

\* lines 283-306.  The sweep detector confirms on a green candle only, so the
\* plan's side is LONG.  The mutant has no try/except: the exception leaves
\* get_and_analyze.
get_and_analyze_uncaught(sym, feed) ==
    IF feed.kind \in ErrorKinds
    THEN [symbol |-> sym, kind |-> "raise", error |-> feed.kind]
    ELSE IF ~feed.signal
    THEN [symbol |-> sym, kind |-> "no_plan"]
    ELSE [symbol |-> sym, kind |-> "plan",
          confidence |-> Confidence("LONG", feed.fp, feed.rc)]
get_and_analyze(sym, feed) ==
    IF feed.kind \in ErrorKinds
    THEN [symbol |-> sym, kind |-> "error", error |-> feed.kind]
    ELSE IF ~feed.signal
    THEN [symbol |-> sym, kind |-> "no_plan"]
    ELSE [symbol |-> sym, kind |-> "plan",
          confidence |-> Confidence("LONG", feed.fp, feed.rc)]

\* lines 257-280: which of its three texts format_plan_message builds
format_plan_message(analysis) ==
    [msg |-> IF analysis.kind = "error" THEN "error"
             ELSE IF analysis.kind = "plan" THEN "plan" ELSE "no_plan",
     symbol |-> analysis.symbol]

\* line 337: "plan" in analysis and analysis["plan"]["confidence"] >= 0.65
IsPlanAlert(analysis) == analysis.kind = "plan" /\ analysis.confidence >= 65

\* lines 326-327
RolledOver(at, now) == IF at.date # now THEN [count |-> 0, date |-> now] ELSE at

\* line 328; the mutant stops only above the cap
CapExceeded(at) == at.count > MAX_ALERTS_PER_DAY
CapReached(at) == at.count >= MAX_ALERTS_PER_DAY

PostOpenMsg == [msg |-> "post_open_scan", symbol |-> "all"]
PostErrorMsg == [msg |-> "post_open_error", symbol |-> "all"]
PreAlertMsg == [msg |-> "pre_alert", symbol |-> "all"]
PreErrorMsg == [msg |-> "pre_alert_error", symbol |-> "all"]

\* calendar days the clock runs through: the date on which the counter fills
\* and a later date
MaxDay == 2

JobInit ==
    /\ today = 1
    /\ alerts_today = [count |-> 0, date |-> DateNone]
    /\ post_pc = "idle"
    /\ post_raw15 = Pending
    /\ started = [count |-> 0, date |-> DateNone]
    /\ run_date = DateNone
    /\ feeds = <<>>
    /\ results = <<>>
    /\ fetched = <<>>
    /\ sent = <<>>
    /\ outcome = "idle"
    /\ pre_pc = "idle"
    /\ pre_raw15 = Pending
    /\ pre_results = <<>>
    /\ pre_sent = <<>>

\* datetime.now(PK_TZ).date() moves to the next calendar date
Tick ==
    /\ today < MaxDay
    /\ today' = today + 1
    /\ UNCHANGED <<alerts_today, postVars, preVars>>
    /\ UNCHANGED <<sweepVars, clusterVars, planVars>>

\* lines 323-332: a run of job_post_open starts (no run of it is under way):
\* the date is read, the counter reset on a new date, the cap tested, and
\* the scan message posted.  started and run_date record what the run began
\* with.
PostBegin ==
    /\ post_pc = "idle"
    /\ started' = alerts_today
    /\ run_date' = today
    /\ alerts_today' = RolledOver(alerts_today, today)
    /\ feeds' = <<>>
    /\ results' = <<>>
    /\ fetched' = <<>>
    /\ IF CapReached(RolledOver(alerts_today, today))
       THEN /\ sent' = <<>>
            /\ outcome' = "capped"
            /\ post_pc' = "idle"
       ELSE /\ sent' = <<PostOpenMsg>>
            /\ outcome' = "running"
            /\ post_pc' = "fetch_x15"
    /\ UNCHANGED <<today, post_raw15, preVars>>
    /\ UNCHANGED <<sweepVars, clusterVars, planVars>>

\* get_and_analyze returns (line 305 or 306) from the feed outcome f, or, in
\* the mutant, raises into the except of lines 343-344
PostReturn(sym, f, next_pc) ==
    LET a == get_and_analyze(sym, f)
    IN  /\ feeds' = Append(feeds, f)
        /\ post_raw15' = Pending
        /\ IF a.kind = "raise"
           THEN /\ results' = results
                /\ sent' = Append(sent, PostErrorMsg)
                /\ outcome' = "exception_caught"
                /\ post_pc' = "idle"
           ELSE /\ results' = Append(results, a)
                /\ sent' = sent
                /\ outcome' = outcome
                /\ post_pc' = next_pc

\* lines 334, 335 -> 286: the request of the 15min series is answered; on a
\* failed request get_and_analyze returns the error, else (candles, or values
\* it will not be able to use) it requests the 5min series
PostFetch15(at_pc, sym, wait5_pc, next_pc) ==
    /\ post_pc = at_pc
    /\ fetched' = Append(fetched, sym)
    /\ \E raw15 \in Series15Outcomes :
          IF raw15.kind \in FeedErrors
          THEN PostReturn(sym, [kind |-> raw15.kind], next_pc)
          ELSE /\ post_raw15' = raw15
               /\ post_pc' = wait5_pc
               /\ UNCHANGED <<feeds, results, sent, outcome>>
    /\ UNCHANGED <<today, alerts_today, started, run_date, preVars>>
    /\ UNCHANGED <<sweepVars, clusterVars, planVars>>

\* lines 334, 335 -> 287-306: the request of the 5min series is answered and
\* get_and_analyze returns
PostFetch5(at_pc, sym, next_pc) ==
    /\ post_pc = at_pc
    /\ \E raw5 \in Series5Outcomes : PostReturn(sym, FeedOf(post_raw15, raw5), next_pc)
    /\ UNCHANGED <<today, alerts_today, started, run_date, fetched, preVars>>
    /\ UNCHANGED <<sweepVars, clusterVars, planVars>>

PostFetchXau15 == PostFetch15("fetch_x15", SYMBOL_XAU, "fetch_x5", "fetch_b15")
PostFetchXau5 == PostFetch5("fetch_x5", SYMBOL_XAU, "fetch_b15")
PostFetchBtc15 == PostFetch15("fetch_b15", SYMBOL_BTC, "fetch_b5", "send_x")
PostFetchBtc5 == PostFetch5("fetch_b5", SYMBOL_BTC, "send_x")

\* what follows the turn of the loop of line 336 for results[i]
AfterTurn(i) == IF i = 1 THEN "send_b" ELSE "idle"

\* lines 337-338 and 340-342: the message of results[i] is posted
PostSend(at_pc, i, count_pc) ==
    /\ post_pc = at_pc
    /\ sent' = Append(sent, format_plan_message(results[i]))
    /\ post_pc' = IF IsPlanAlert(results[i]) THEN count_pc ELSE AfterTurn(i)
    /\ outcome' = IF ~IsPlanAlert(results[i]) /\ AfterTurn(i) = "idle"
                  THEN "completed" ELSE outcome
    /\ UNCHANGED <<today, alerts_today, post_raw15, started, run_date, feeds, results,
                   fetched, preVars>>
    /\ UNCHANGED <<sweepVars, clusterVars, planVars>>

PostSendXau == PostSend("send_x", 1, "count_x")
PostSendBtc == PostSend("send_b", 2, "count_b")

\* line 339: alerts_today["count"] += 1, after the post has returned
PostCount(at_pc, i) ==
    /\ post_pc = at_pc
    /\ alerts_today' = [alerts_today EXCEPT !.count = @ + 1]
    /\ post_pc' = AfterTurn(i)
    /\ outcome' = IF AfterTurn(i) = "idle" THEN "completed" ELSE outcome
    /\ UNCHANGED <<today, post_raw15, started, run_date, feeds, results, fetched, sent,
                   preVars>>
    /\ UNCHANGED <<sweepVars, clusterVars, planVars>>

PostCountXau == PostCount("count_x", 1)
PostCountBtc == PostCount("count_b", 2)

\* lines 311-314: a run of job_pre_alert starts and posts its message
PreBegin ==
    /\ pre_pc = "idle"
    /\ pre_results' = <<>>
    /\ pre_sent' = <<PreAlertMsg>>
    /\ pre_pc' = "fetch_x15"
    /\ UNCHANGED <<today, alerts_today, postVars, pre_raw15>>
    /\ UNCHANGED <<sweepVars, clusterVars, planVars>>

\* get_and_analyze returns (line 305 or 306) from the feed outcome f, or, in
\* the mutant, raises into the except of lines 320-321
PreReturn(sym, f, next_pc) ==
    LET a == get_and_analyze(sym, f)
    IN  /\ pre_raw15' = Pending
        /\ IF a.kind = "raise"
           THEN /\ pre_results' = pre_results
                /\ pre_sent' = Append(pre_sent, PreErrorMsg)
                /\ pre_pc' = "idle"
           ELSE /\ pre_results' = Append(pre_results, a)
                /\ pre_sent' = pre_sent
                /\ pre_pc' = next_pc

\* lines 316, 317 -> 286: the request of the 15min series is answered
PreFetch15(at_pc, sym, wait5_pc, next_pc) ==
    /\ pre_pc = at_pc
    /\ \E raw15 \in Series15Outcomes :
          IF raw15.kind \in FeedErrors
          THEN PreReturn(sym, [kind |-> raw15.kind], next_pc)
          ELSE /\ pre_raw15' = raw15
               /\ pre_pc' = wait5_pc
               /\ UNCHANGED <<pre_results, pre_sent>>
    /\ UNCHANGED <<today, alerts_today, postVars>>
    /\ UNCHANGED <<sweepVars, clusterVars, planVars>>

\* lines 316, 317 -> 287-306: the request of the 5min series is answered and
\* get_and_analyze returns
PreFetch5(at_pc, sym, next_pc) ==
    /\ pre_pc = at_pc
    /\ \E raw5 \in Series5Outcomes : PreReturn(sym, FeedOf(pre_raw15, raw5), next_pc)
    /\ UNCHANGED <<today, alerts_today, postVars>>
    /\ UNCHANGED <<sweepVars, clusterVars, planVars>>

PreFetchXau15 == PreFetch15("fetch_x15", SYMBOL_XAU, "fetch_x5", "fetch_b15")
PreFetchXau5 == PreFetch5("fetch_x5", SYMBOL_XAU, "fetch_b15")
PreFetchBtc15 == PreFetch15("fetch_b15", SYMBOL_BTC, "fetch_b5", "send_x")
PreFetchBtc5 == PreFetch5("fetch_b5", SYMBOL_BTC, "send_x")

\* lines 318, 319: the message of pre_results[i] is posted
PreSend(at_pc, i, next_pc) ==
    /\ pre_pc = at_pc
    /\ pre_sent' = Append(pre_sent, format_plan_message(pre_results[i]))
    /\ pre_pc' = next_pc
    /\ UNCHANGED <<today, alerts_today, postVars, pre_raw15, pre_results>>
    /\ UNCHANGED <<sweepVars, clusterVars, planVars>>

PreSendXau == PreSend("send_x", 1, "send_b")
PreSendBtc == PreSend("send_b", 2, "idle")

JobIdle == JobInit

(***************************************************************************)
(* Specifications                                                          *)
(***************************************************************************)
Init == JobInit /\ SweepIdle /\ ClusterIdle /\ PlanIdle
Next ==
    \/ Tick
    \/ PostBegin \/ PostFetchXau15 \/ PostFetchXau5 \/ PostFetchBtc15 \/ PostFetchBtc5
    \/ PostSendXau \/ PostCountXau \/ PostSendBtc \/ PostCountBtc
    \/ PreBegin \/ PreFetchXau15 \/ PreFetchXau5 \/ PreFetchBtc15 \/ PreFetchBtc5
    \/ PreSendXau \/ PreSendBtc
Spec == Init /\ [][Next]_vars

InitSweep == JobIdle /\ SweepInit /\ ClusterIdle /\ PlanIdle
NextSweep == DetectSweep
SpecSweep == InitSweep /\ [][NextSweep]_vars

InitCluster == JobIdle /\ SweepIdle /\ ClusterInit /\ PlanIdle
NextCluster == DetectCluster
SpecCluster == InitCluster /\ [][NextCluster]_vars

InitPlan == JobIdle /\ SweepIdle /\ ClusterIdle /\ PlanInit
NextPlan == BuildPlan
SpecPlan == InitPlan /\ [][NextPlan]_vars

(***************************************************************************)
(* Claims about job_post_open (specification Spec)                         *)
(***************************************************************************)
\* the count the last run started from, after the date check of lines 326-327
BaseCount == IF started.date = run_date THEN started.count ELSE 0

\* instruments of the last run whose feed gave candles with a sweep
Signals == {i \in 1..Len(feeds) : feeds[i].kind = "candles" /\ feeds[i].signal}

\* C1: after any sequence of job_post_open runs alerts_today.count never
\* exceeds MAX_ALERTS_PER_DAY, and the first run on a new date counts only
\* that run's alerts.
C1_CountWithinCap ==
    /\ alerts_today.count <= MAX_ALERTS_PER_DAY
    /\ (outcome = "completed" /\ started.date # run_date)
          => alerts_today.count = Cardinality(Signals)

\* what the other instrument's feed gave decides that instrument's message
MessageOf(i) ==
    IF i \in Signals THEN "plan"
    ELSE IF feeds[i].kind \in ErrorKinds THEN "error" ELSE "no_plan"

\* C8: no job_post_open run ends in its except branch, and when a request
\* of the feed fails (transport error, timeout, response without values)
\* for an instrument of a run that scans, the finished run has requested
\* both instruments, holds an error result and has sent the error message
\* for that instrument, and has counted nothing for it; the other
\* instrument has the result, the message and the count its own feed gives:
\* an error only if its own feed failed or gave values that cannot be used,
\* and with a sweep its plan alert sent and counted.
C8_FeedFailureSkipsOneInstrument ==
    /\ outcome # "exception_caught"
    /\ outcome = "completed" =>
        \A i \in 1..2 :
            LET o == 3 - i
            IN  feeds[i].kind \in FeedErrors =>
                    /\ fetched = <<SYMBOL_XAU, SYMBOL_BTC>>
                    /\ Len(results) = 2
                    /\ results[i].kind = "error"
                    /\ results[i].symbol = fetched[i]
                    /\ results[o].symbol = fetched[o]
                    /\ results[o].kind = "error" <=> feeds[o].kind \in ErrorKinds
                    /\ results[o].kind = "plan" <=> o \in Signals
                    /\ Len(sent) = 3
                    /\ sent[1 + i] = [msg |-> "error", symbol |-> fetched[i]]
                    /\ sent[1 + o] = [msg |-> MessageOf(o), symbol |-> fetched[o]]
                    /\ alerts_today.count = BaseCount + (IF o \in Signals THEN 1 ELSE 0)
                    /\ alerts_today.date = run_date

\* the XAU feed failed, BTC had a plan, and that plan was sent and counted
C8_Witness ==
    /\ outcome = "completed"
    /\ feeds[1].kind = "timeout"
    /\ 2 \in Signals
    /\ results[1].kind = "error"
    /\ sent[3].msg = "plan"
    /\ BaseCount = 1
    /\ alerts_today.count = 2

\* C9: a job_post_open run that starts on the date of alerts_today with the
\* count at or above MAX_ALERTS_PER_DAY ends at once: it fetches nothing,
\* sends nothing and leaves alerts_today as it was; a run on another date
\* starts from zero, scans, and when it has finished it has fetched both
\* instruments and counted its plan alerts.
C9_CapSilencesUntilNextDate ==
    outcome # "idle" =>
        /\ (started.date = run_date /\ started.count >= MAX_ALERTS_PER_DAY)
              => /\ outcome = "capped"
                 /\ post_pc = "idle"
                 /\ fetched = <<>>
                 /\ sent = <<>>
                 /\ alerts_today = started
        /\ (started.date # run_date)
              => /\ outcome \in {"running", "completed"}
                 /\ alerts_today.date = run_date
                 /\ Len(sent) >= 1
                 /\ sent[1] = PostOpenMsg
                 /\ outcome = "completed"
                       => /\ fetched = <<SYMBOL_XAU, SYMBOL_BTC>>
                          /\ Len(sent) = 3
                          /\ alerts_today.count = Cardinality(Signals)

\* a run that found the count at the cap on the same date, with a pre-alert
\* run under way
C9_Witness ==
    /\ started.date = run_date
    /\ started.count = MAX_ALERTS_PER_DAY
    /\ outcome = "capped"
    /\ alerts_today = started
    /\ pre_pc = "send_b"

(***************************************************************************)
(* Claims about detect_sweep_and_green (specification SpecSweep)           *)
(***************************************************************************)
\* the newest lookback+1 candles, for a list of at least lookback+2
NewestWindow == SubSeq(candles_15m, Len(candles_15m) - lookback, Len(candles_15m))

\* interior positions of the newest window that pass the three tests
Matches == {i \in 2..lookback : IsSweepAt(NewestWindow, i, tie_wick)}

Oldest(S) == CHOOSE i \in S : \A j \in S : i <= j

\* C3: with at least lookback+2 candles, signal is true exactly when some
\* interior candle of the newest lookback+1 candles passes the three tests;
\* the sweep candle is then the oldest such candle of the window and the
\* confirm candle the one right after it.
C3_OldestSweepReported ==
    (detection # Pending /\ Len(candles_15m) >= lookback + 2) =>
        /\ detection.signal <=> (Matches # {})
        /\ detection.signal =>
              /\ detection.sweep_candle = NewestWindow[Oldest(Matches)]
              /\ detection.confirm_candle = NewestWindow[Oldest(Matches) + 1]
              /\ detection.sweep_index_from_end = lookback + 1 - Oldest(Matches)
        /\ ~detection.signal => detection.reason = "no_sweep_found"

\* a window with two sweeps that differ, of which the older one is reported
C3_Witness ==
    /\ detection # Pending
    /\ Len(candles_15m) >= lookback + 2
    /\ Cardinality(Matches) >= 2
    /\ \E i \in Matches : NewestWindow[i] # NewestWindow[Oldest(Matches)]
    /\ detection.signal
    /\ detection.sweep_candle = NewestWindow[Oldest(Matches)]

\* C4: a candle is reported as the sweep candle only if its wick below the
\* body, min(open, close) - low, is more than 0.35 of its range high - low.
C4_SweepWickBelowBody ==
    (detection # Pending /\ detection.signal) =>
        LET c == detection.sweep_candle
        IN  20 * (Min(c.open, c.close) - c.low) > 7 * (c.high - c.low)

\* C10: with fewer than lookback+2 candles the result is signal=false with
\* reason not_enough_data and no candle is read; whatever is read is an index
\* of the list.
C10_ShortListNoSignal ==
    detection # Pending =>
        /\ detection.reads \subseteq 1..Len(candles_15m)
        /\ Len(candles_15m) < lookback + 2
              => /\ ~detection.signal
                 /\ detection.reason = "not_enough_data"
                 /\ detection.reads = {}

\* a list one candle short of lookback+2 that holds a sweep and its confirmation
C10_Witness ==
    /\ detection # Pending
    /\ Len(candles_15m) = lookback + 1
    /\ \E i \in 2..(Len(candles_15m) - 1) : IsSweepAt(candles_15m, i, tie_wick)
    /\ ~detection.signal
    /\ detection.reason = "not_enough_data"

(***************************************************************************)
(* Claims about detect_retail_stop_cluster (specification SpecCluster)     *)
(***************************************************************************)
\* n = min(len, lookback_minutes/5), and the candles whose highs and lows are
\* counted: the n newest, and all of them when n is 0 (lookback_minutes < 5)
ClaimN == Min(Len(candles_5m), lookback_minutes \div 5)
ClaimWindow ==
    IF ClaimN = 0 THEN candles_5m
    ELSE SubSeq(candles_5m, Len(candles_5m) - ClaimN + 1, Len(candles_5m))

\* the largest number of values of the window within band/2 of one of them;
\* a value exactly band/2 from the centre counts as the float comparison of
\* the call found it (tie_band)
MaxBandCount(value(_)) ==
    LET idx    == 1..Len(ClaimWindow)
        d2(i, j) == 2 * Abs(value(ClaimWindow[j]) - value(ClaimWindow[i]))
        cnt(i) == Cardinality({j \in idx :
                      \/ d2(i, j) < RETAIL_CLUSTER_BAND
                      \/ /\ d2(i, j) = RETAIL_CLUSTER_BAND
                         /\ <<value(ClaimWindow[i]), value(ClaimWindow[j])>> \in tie_band})
    IN  IF idx = {} THEN 0 ELSE CHOOSE m \in {cnt(i) : i \in idx} :
                                    \A i \in idx : cnt(i) <= m

HighOf(c) == c.high
LowOf(c) == c.low

HighCount == MaxBandCount(HighOf)
LowCount == MaxBandCount(LowOf)

\* the side the rule gives when a count qualifies(cnt)
SideRule(qualifies(_)) ==
    /\ retail_cluster.side = "SELL" <=> qualifies(HighCount)
    /\ retail_cluster.side = "BUY" <=> (~qualifies(HighCount) /\ qualifies(LowCount))
    /\ retail_cluster.side = "none" <=> (~qualifies(HighCount) /\ ~qualifies(LowCount))

\* a count is at least max(3, 8% of n), 8% of n taken as the fraction it is
AtLeastEightPercent(cnt) == 100 * cnt >= Max(300, 8 * ClaimN)

\* a count is at least max(3, 8% of n rounded down to a whole number)
AtLeastEightPercentFloor(cnt) == cnt >= Max(3, (8 * ClaimN) \div 100)

\* C7 as claimed: for a non-empty list the side is SELL exactly when the
\* highs' largest band count is at least max(3, 8% of n), BUY exactly when the
\* highs do not qualify and the lows' count does, and none otherwise.
C7_SideByEightPercent ==
    (retail_cluster # Pending /\ candles_5m # <<>>) => SideRule(AtLeastEightPercent)

\* C7 as amended: the same rule with the threshold max(3, floor(0.08 * n));
\* the reported count and price are the qualifying side's.
C7_SideByFlooredThreshold ==
    (retail_cluster # Pending /\ candles_5m # <<>>) =>
        /\ SideRule(AtLeastEightPercentFloor)
        /\ retail_cluster.side = "SELL" => retail_cluster.count = HighCount
        /\ retail_cluster.side = "BUY" => retail_cluster.count = LowCount

\* a window of 40 candles whose highs and lows both hold a cluster of 3:
\* 3 is below 8% of 40 = 3.2 and SELL is reported
C7_Witness ==
    /\ retail_cluster # Pending
    /\ ClaimN = 40
    /\ HighCount = 3
    /\ LowCount = 3
    /\ retail_cluster.side = "SELL"

(***************************************************************************)
(* Claims about build_trade_plan (specification SpecPlan)                  *)
(***************************************************************************)
Ordered(p) ==
    /\ p.side = "LONG" => (p.sl < p.entry /\ p.entry < p.tp1 /\ p.tp1 < p.tp)
    /\ p.side = "SHORT" => (p.tp < p.tp1 /\ p.tp1 < p.entry /\ p.entry < p.sl)

\* C2 as claimed: every plan, for any sweep and confirm candles, has
\* sl < entry < tp1 < tp when LONG and tp < tp1 < entry < sl when SHORT.
C2_PlanOrdered == plan # Pending => Ordered(plan)

\* the confirmation opens on the entry side of the sweep extreme, as it does
\* for every pair the sweep detector reports
OpensInsideSweep ==
    IF Side(confirm) = "LONG" THEN confirm.open >= sweep.low
                              ELSE confirm.open <= sweep.high

\* C2 as amended: the ordering holds for every plan whose confirm candle
\* opens at or above the sweep low (LONG) or at or below the sweep high (SHORT).
C2_PlanOrderedWhenOpenInsideSweep ==
    (plan # Pending /\ OpensInsideSweep) => Ordered(plan)

\* a LONG plan from a pair the detector can report, with the entry moved past
\* a cluster onto a rounding tie that went down
C2_Witness ==
    /\ plan # Pending
    /\ plan.side = "LONG"
    /\ sweep.low < confirm.low
    /\ NearCluster("LONG", EntryCandidate(symbol, sweep, confirm), cluster_in, tie_near)
    /\ "entry" \in TiedFields(symbol, sweep, confirm, cluster_in, tie_near, tie_round)
    /\ "entry" \notin tie_round
    /\ Ordered(plan)

\* distance of the entry candidate of lines 214/223 from the cluster price,
\* in half units
CandidateDistance ==
    Abs(EntryCandidate(symbol, sweep, confirm) - 2 * cluster_in.cluster_price)

\* the entry candidate lies within one band of a cluster on the plan's side:
\* closer than one band, or exactly one band away with the comparison of
\* the two floats (lines 217 and 226) answering that it is within the band
ClusterInTheWay ==
    /\ cluster_in.side = (IF plan.side = "LONG" THEN "BUY" ELSE "SELL")
    /\ \/ CandidateDistance < 2 * cluster_in.band
       \/ CandidateDistance = 2 * cluster_in.band /\ tie_near

\* C5: with a cluster on the plan's side within one band of the unadjusted
\* entry candidate, the returned entry is at least one band above the cluster
\* price (LONG) or below it (SHORT); otherwise the entry is the unadjusted
\* candidate, rounded.
C5_EntryClearsCluster ==
    plan # Pending =>
        IF ClusterInTheWay
        THEN IF plan.side = "LONG"
             THEN plan.entry - cluster_in.cluster_price >= cluster_in.band
             ELSE cluster_in.cluster_price - plan.entry >= cluster_in.band
        ELSE plan.entry = Round(symbol, EntryCandidate(symbol, sweep, confirm),
                                "entry" \in tie_round)

\* a SHORT plan whose candidate lay above a SELL cluster, within the band,
\* and whose entry was moved below the band
C5_Witness ==
    /\ plan # Pending
    /\ plan.side = "SHORT"
    /\ ClusterInTheWay
    /\ EntryCandidate(symbol, sweep, confirm) > 2 * cluster_in.cluster_price
    /\ plan.entry < cluster_in.cluster_price - cluster_in.band

ConfidenceSum(no_cluster) ==
    Min(95, 50 + 20 + (IF footprint.footprint THEN 15 ELSE 0)
                    + (IF no_cluster THEN 10 ELSE 0))

\* C6 as claimed: the confidence is min(0.95, 0.5 + 0.2 + 0.15 with a
\* footprint + 0.1 with no cluster on the plan's entry side).
C6_ConfidenceByEntrySide ==
    plan # Pending =>
        plan.confidence =
            ConfidenceSum(cluster_in.side # (IF plan.side = "LONG" THEN "BUY" ELSE "SELL"))

\* C6 as amended: the 0.1 is added only when the cluster detector reported
\* no cluster at all (side none).
C6_ConfidenceByAnyCluster ==
    plan # Pending => plan.confidence = ConfidenceSum(cluster_in.side = "none")

\* a LONG plan with a footprint and a SELL cluster: 0.85, the 0.1 not added
C6_Witness ==
    /\ plan # Pending
    /\ plan.side = "LONG"
    /\ cluster_in.side = "SELL"
    /\ footprint.footprint
    /\ plan.confidence = 85

====
